---- MODULE Spec2Model ----
(***************************************************************************)
(* A model of the source-position / document model of vhdl_parser          *)
(* (src/vhdl_parser/src/source.rs) and of the assignment analyzer of       *)
(* vhdl_lang (src/vhdl_lang/src/analysis/assignment.rs).                   *)
(*                                                                         *)
(* Six specifications share the variables below:                          *)
(*   SpecPos     SrcPos::combine / combine_into on bounded spans           *)
(*   SpecIdentity two Source values, Source::eq, Source::change            *)
(*   SpecEdit    Source::change on one Source, then reading it back        *)
(*   SpecLock    threads reading and changing one Source through the       *)
(*               RwLock<Contents> (FairLock adds the scheduler's fairness) *)
(*   SpecAssign  analyze_expr_assignment / analyze_waveform_assignment     *)
(*   SpecCtx     SrcPos::code_context on a Source that may have changed    *)
(* An Option<T> is a sequence of length 0 (None) or 1 (Some).              *)
(***************************************************************************)
EXTENDS Integers, Sequences, FiniteSets, TLC

VARIABLES
    \* SrcPos::combine (SpecPos)
    self_pos, other_pos, combined, combined_rev, cpc,
    \* Source (SpecEdit, SpecLock): id -> [file_id, contents]
    sources, edits, last_change,
    \* RwLock<Contents> and the threads using one Source (SpecLock)
    rw, tpc, observed,
    \* assignment analyzer (SpecAssign)
    kind, rhs, ttyp, apc, calls, diagnostics, result,
    \* SrcPos::code_context (SpecCtx): the span, whether its Source was changed
    \* after the span was made, and the returned (lineno_len, String)
    ctx_pos, ctx_changed, ctx_out

posVars == <<self_pos, other_pos, combined, combined_rev, cpc>>
srcVars == <<sources, edits, last_change>>
lockVars == <<rw, tpc, observed>>
anVars == <<kind, rhs, ttyp, apc, calls, diagnostics, result>>
ctxVars == <<ctx_pos, ctx_changed, ctx_out>>
vars == <<posVars, srcVars, lockVars, anVars, ctxVars>>

None == <<>>
Some(v) == <<v>>
IsSome(o) == Len(o) = 1
Unwrap(o) == o[1]

(***************************************************************************)
(* Bounds                                                                  *)
(***************************************************************************)
MaxLine == 1
MaxChar == 2
\* longest content / longest replacement text of SpecEdit and SpecLock
MaxLen == 2
MaxInsert == 1
\* the same for the two Sources of SpecIdentity
IdMaxLen == 1
IdMaxInsert == 1
\* change calls counted in SpecIdentity
MaxEdits == 2
\* SpecLock: longest content, reads through one guard
LockMaxLen == 1
MaxReads == 2
\* SpecAssign: branches of a conditional / selected right-hand side, diagnostics
\* pushed during one statement
MaxBranches == 2
MaxDiags == 2

(***************************************************************************)
(* FileId, Source identity                                                 *)
(***************************************************************************)
Names == {"a.vhd", "b.vhd", "tb.vhd"}

\* fn hash(value: &str) -> u64: a function of the name alone. DefaultHasher is
\* not injective; the model's hash collides on "a.vhd" and "b.vhd".
hash(value) == IF value = "tb.vhd" THEN 2 ELSE 1

FileId_new(name) == [name |-> name, hash |-> hash(name)]

FileId_eq_Mut(self, other) == self.hash = other.hash

FileId_eq(self, other) ==
    IF self.hash = other.hash THEN self.name = other.name ELSE FALSE

Source_eq(self, other) == FileId_eq(self.file_id, other.file_id)

(***************************************************************************)
(* Position, Range, SrcPos                                                 *)
(***************************************************************************)
Position_new(line, character) == [line |-> line, character |-> character]

Positions == {Position_new(l, c) : l \in 0..MaxLine, c \in 0..MaxChar}

\* #[derive(PartialOrd, Ord)] on Position: lexicographic, line first
Position_lt(p, q) ==
    \/ p.line < q.line
    \/ p.line = q.line /\ p.character < q.character

Position_le(p, q) == p = q \/ Position_lt(p, q)

\* std::cmp::min / max on Position
min(p, q) == IF Position_le(p, q) THEN p ELSE q

max_Mut(p, q) == IF Position_le(p, q) THEN p ELSE q

max(p, q) == IF Position_le(p, q) THEN q ELSE p

Range_new(start, end) == [start |-> start, end |-> end]

\* Range construction does not order start and end
Ranges == {Range_new(s, e) : s \in Positions, e \in Positions}

SrcPos_new(source, range) == [source |-> source, range |-> range]

\* #[derive(PartialEq)] on SrcPos: Source::eq on the source, field equality on the range
SrcPos_eq(p, q) == Source_eq(p.source, q.source) /\ p.range = q.range

combine_into_Mut(self, other) ==
    SrcPos_new(self.source,
               Range_new(min(self.range.start, other.range.start),
                         max(self.range.end, other.range.start)))

\* SrcPos::combine_into, past its debug_assert
combine_into(self, other) ==
    SrcPos_new(self.source,
               Range_new(min(self.range.start, other.range.start),
                         max(self.range.end, other.range.end)))

\* SrcPos::combine: self.clone().combine_into(other)
combine(self, other) == combine_into(self, other)

(***************************************************************************)
(* Latin1String: a sequence of one-character strings                       *)
(***************************************************************************)
Chars == {"a", "b", "\n"}

Texts(n) == UNION {[1..k -> Chars] : k \in 0..n}

RECURSIVE Flatten(_)
Flatten(lines) ==
    IF lines = <<>> THEN <<>> ELSE Head(lines) \o Flatten(Tail(lines))

\* index of the first "\n" of text, 0 when there is none
FirstNewline(text) ==
    IF \E i \in 1..Len(text) : text[i] = "\n"
    THEN CHOOSE i \in 1..Len(text) :
            text[i] = "\n" /\ \A j \in 1..(i - 1) : text[j] # "\n"
    ELSE 0

(***************************************************************************)
(* Contents: the line table of one Source. crate::contents is not among    *)
(* the sources; it is modelled from its description: lines keep their      *)
(* terminating newline (code_context trims it), a range replacement keeps  *)
(* the start line up to the start character and the end line from the end  *)
(* character, and the line table is recomputed from the merged text.       *)
(***************************************************************************)
RECURSIVE split_lines(_)
split_lines(text) ==
    IF text = <<>> THEN <<>>
    ELSE LET k == FirstNewline(text)
         IN IF k = 0 THEN <<text>>
            ELSE <<SubSeq(text, 1, k)>> \o split_lines(SubSeq(text, k + 1, Len(text)))

Contents_from_latin1(text) == [lines |-> split_lines(text)]

\* Contents::get_line(lineno): Option<&Latin1String>, lineno from 0
Contents_get_line(contents, lineno) ==
    IF lineno + 1 \in 1..Len(contents.lines)
    THEN Some(contents.lines[lineno + 1]) ELSE None

\* the full content read back
Contents_text(contents) == Flatten(contents.lines)

\* the positions that address a character boundary of the contents
ValidPositions(contents) ==
    {p \in [line : 0..Len(contents.lines), character : 0..Len(Flatten(contents.lines))] :
        \/ p.line < Len(contents.lines)
           /\ p.character <= Len(contents.lines[p.line + 1])
        \/ /\ p.line = Len(contents.lines) /\ p.character = 0
           /\ \/ contents.lines = <<>>
              \/ contents.lines[Len(contents.lines)][Len(contents.lines[Len(contents.lines)])] = "\n"}

ValidRanges(contents) ==
    {r \in [start : ValidPositions(contents), end : ValidPositions(contents)] :
        Position_le(r.start, r.end)}

Contents_change(contents, range, content) ==
    LET lines == contents.lines
        sl == range.start.line
        el == range.end.line
        first == IF sl < Len(lines)
                 THEN SubSeq(lines[sl + 1], 1, range.start.character) ELSE <<>>
        rest == IF el < Len(lines)
                THEN SubSeq(lines[el + 1], range.end.character + 1, Len(lines[el + 1]))
                ELSE <<>>
        before == Flatten(SubSeq(lines, 1, sl))
        after == Flatten(SubSeq(lines, el + 2, Len(lines)))
    IN [lines |-> split_lines(before \o first \o content \o rest \o after)]

(***************************************************************************)
(* Source                                                                  *)
(***************************************************************************)
Source_inline(file_name, contents) ==
    [file_id |-> FileId_new(file_name), contents |-> Contents_from_latin1(contents)]

Source_change_Mut(self, range, content) ==
    [self EXCEPT !.contents =
        IF IsSome(range)
        THEN Contents_change(@, Range_new(Unwrap(range).start, Unwrap(range).start), content)
        ELSE Contents_from_latin1(Contents_text(@) \o content)]

\* Source::change under the write guard
Source_change(self, range, content) ==
    [self EXCEPT !.contents =
        IF IsSome(range)
        THEN Contents_change(@, Unwrap(range), content)
        ELSE Contents_from_latin1(content)]

\* the arguments a caller may pass to change on the current contents
ChangeRanges(self) == {None} \cup {Some(r) : r \in ValidRanges(self.contents)}

(***************************************************************************)
(* The variables a specification does not use stay at these values         *)
(***************************************************************************)
PosIdle ==
    /\ self_pos = None /\ other_pos = None
    /\ combined = None /\ combined_rev = None /\ cpc = "off"
SrcIdle == sources = <<>> /\ edits = 0 /\ last_change = None
LockIdle == rw = None /\ tpc = <<>> /\ observed = <<>>
AnIdle ==
    /\ kind = "off" /\ rhs = None /\ ttyp = None /\ apc = None
    /\ calls = <<>> /\ diagnostics = <<>> /\ result = "off"
CtxIdle == ctx_pos = None /\ ctx_changed = FALSE /\ ctx_out = None

(***************************************************************************)
(* SpecPos: a.combine(&b) and b.combine(&a) for two spans                  *)
(***************************************************************************)
PosSources == {Source_inline(n, <<>>) : n \in {"a.vhd", "b.vhd"}}

InitPos ==
    /\ self_pos \in {Some(SrcPos_new(s, r)) : s \in PosSources, r \in Ranges}
    /\ other_pos \in {Some(SrcPos_new(s, r)) : s \in PosSources, r \in Ranges}
    /\ combined = None /\ combined_rev = None
    /\ cpc = "start"
    /\ SrcIdle /\ LockIdle /\ AnIdle /\ CtxIdle

\* debug_assert!(self.source == other.source) fails: a debug build panics
CombinePanic ==
    /\ cpc = "start"
    /\ ~Source_eq(Unwrap(self_pos).source, Unwrap(other_pos).source)
    /\ cpc' = "panicked"
    /\ UNCHANGED <<self_pos, other_pos, combined, combined_rev>>
    /\ UNCHANGED <<srcVars, lockVars, anVars, ctxVars>>

\* the call returns: the sources are equal, or a release build has no debug_assert
Combine ==
    /\ cpc = "start"
    /\ combined' = Some(combine(Unwrap(self_pos), Unwrap(other_pos)))
    /\ combined_rev' = Some(combine(Unwrap(other_pos), Unwrap(self_pos)))
    /\ cpc' = "done"
    /\ UNCHANGED <<self_pos, other_pos>>
    /\ UNCHANGED <<srcVars, lockVars, anVars, ctxVars>>

NextPos == Combine \/ CombinePanic

SpecPos == InitPos /\ [][NextPos]_vars

\* C1: for two spans a, b on the same Source, combine(a, b) equals combine(b, a),
\* its start is the smaller of the two starts and its end the larger of the two
\* ends in the (line, character) order.
C1_CombineCommutes ==
    (cpc = "done" /\ Source_eq(Unwrap(self_pos).source, Unwrap(other_pos).source)) =>
        LET a == Unwrap(self_pos)
            b == Unwrap(other_pos)
            ab == Unwrap(combined)
            ba == Unwrap(combined_rev)
        IN /\ SrcPos_eq(ab, ba)
           /\ ab.range.start \in {a.range.start, b.range.start}
           /\ Position_le(ab.range.start, a.range.start)
           /\ Position_le(ab.range.start, b.range.start)
           /\ ab.range.end \in {a.range.end, b.range.end}
           /\ Position_le(a.range.end, ab.range.end)
           /\ Position_le(b.range.end, ab.range.end)

\* two different spans, the first starting after the second, were combined
C1_Witness ==
    /\ cpc = "done"
    /\ Position_lt(Unwrap(other_pos).range.start, Unwrap(self_pos).range.start)
    /\ Position_lt(Unwrap(self_pos).range.end, Unwrap(other_pos).range.end)
    /\ Unwrap(self_pos).source.file_id.name = "a.vhd"
    /\ Unwrap(other_pos).source.file_id.name = "a.vhd"

(***************************************************************************)
(* SpecIdentity: two Sources, compared by Source::eq, edited by change     *)
(***************************************************************************)
InitIdentity ==
    /\ sources \in [1..2 -> {Source_inline(n, t) : n \in Names, t \in Texts(IdMaxLen)}]
    /\ edits = 0
    /\ last_change = None
    /\ PosIdle /\ LockIdle /\ AnIdle /\ CtxIdle

\* source.change(range, content) on one of the Sources, no other thread involved
Change(id, range, content) ==
    /\ edits < MaxEdits
    /\ Len(Contents_text(Source_change(sources[id], range, content).contents)) <= IdMaxLen
    /\ sources' = [sources EXCEPT ![id] = Source_change(@, range, content)]
    /\ edits' = edits + 1
    /\ UNCHANGED last_change
    /\ UNCHANGED <<posVars, lockVars, anVars, ctxVars>>

NextIdentity ==
    \E id \in DOMAIN sources :
        \E range \in ChangeRanges(sources[id]), content \in Texts(IdMaxInsert) :
            Change(id, range, content)

SpecIdentity == InitIdentity /\ [][NextIdentity]_vars

\* C2: two Sources are equal exactly when their names are equal, whatever their
\* contents, at construction and after any change calls on either of them.
C2_IdentityExcludesContent ==
    \A i \in DOMAIN sources, j \in DOMAIN sources :
        Source_eq(sources[i], sources[j])
            <=> sources[i].file_id.name = sources[j].file_id.name

\* after a change, two Sources of one name hold different text and are equal
C2_Witness ==
    /\ edits > 0
    /\ sources[1].file_id.name = sources[2].file_id.name
    /\ sources[1].contents # sources[2].contents
    /\ Source_eq(sources[1], sources[2])

(***************************************************************************)
(* SpecEdit: change on one Source, then the full content read back         *)
(***************************************************************************)
InitEdit ==
    /\ sources \in [1..1 -> {Source_inline("a.vhd", t) : t \in Texts(MaxLen)}]
    /\ edits = 0
    /\ last_change = None
    /\ PosIdle /\ LockIdle /\ AnIdle /\ CtxIdle

\* source.change(range, content); last_change keeps the call and the text before it
ChangeAndRead(range, content) ==
    /\ Len(Contents_text(Source_change(sources[1], range, content).contents)) <= MaxLen
    /\ sources' = [sources EXCEPT ![1] = Source_change(@, range, content)]
    /\ last_change' = Some([before |-> Contents_text(sources[1].contents),
                            range |-> range, content |-> content])
    /\ UNCHANGED edits
    /\ UNCHANGED <<posVars, lockVars, anVars, ctxVars>>

NextEdit ==
    \E range \in ChangeRanges(sources[1]), content \in Texts(MaxInsert) :
        ChangeAndRead(range, content)

SpecEdit == InitEdit /\ [][NextEdit]_vars

\* the number of characters of text before the start of line `line` (from 0)
LineStart(text, line) ==
    IF line = 0 THEN 0
    ELSE CHOOSE i \in 1..Len(text) :
            /\ text[i] = "\n"
            /\ Cardinality({j \in 1..i : text[j] = "\n"}) = line

Offset(text, pos) == LineStart(text, pos.line) + pos.character

\* the replacement spliced into the string by hand
Splice(text, range, content) ==
    SubSeq(text, 1, Offset(text, range.start))
        \o content
        \o SubSeq(text, Offset(text, range.end) + 1, Len(text))

\* C3: after change(range, text) the full content is the text before the call with
\* the replacement spliced in at the range, and after change(None, text) it is text.
C3_RoundTripEdit ==
    IsSome(last_change) =>
        LET c == Unwrap(last_change)
        IN Contents_text(sources[1].contents) =
              IF IsSome(c.range)
              THEN Splice(c.before, Unwrap(c.range), c.content)
              ELSE c.content

\* a replacement that spans the line break of a text
C3_Witness ==
    /\ IsSome(last_change)
    /\ IsSome(Unwrap(last_change).range)
    /\ Unwrap(Unwrap(last_change).range).start = Position_new(0, 0)
    /\ Unwrap(Unwrap(last_change).range).end = Position_new(1, 0)
    /\ Unwrap(last_change).content = <<"b">>
    /\ Unwrap(last_change).before = <<"\n", "a">>

\* a whole-content replacement of a non-empty text
C3_WitnessWhole ==
    /\ IsSome(last_change)
    /\ Unwrap(last_change).range = None
    /\ Unwrap(last_change).before # <<>>
    /\ Unwrap(last_change).content # <<>>

(***************************************************************************)
(* SpecLock: threads sharing one Source. UniqueSource.contents is an       *)
(* RwLock<Contents>: rw counts the read guards and flags the write guard.  *)
(* std::sync::RwLock fixes no priority policy: a writer that waits "might  *)
(* or might not block concurrent calls to read", so a reader is admitted   *)
(* whenever no write guard is held.                                        *)
(***************************************************************************)
\* the threads that hold a clone of the Source
Threads == {1, 2, 3}

InitLock ==
    /\ sources = <<Source_inline("a.vhd", <<>>)>>
    /\ edits = 0
    /\ last_change = None
    /\ rw = [readers |-> 0, writer |-> FALSE]
    /\ tpc = [t \in Threads |-> "idle"]
    /\ observed = [t \in Threads |-> <<>>]
    /\ PosIdle /\ AnIdle /\ CtxIdle

\* a thread calls Source::contents (code_context does, to render a span)
contents_call(t) ==
    /\ tpc[t] = "idle"
    /\ tpc' = [tpc EXCEPT ![t] = "read_wait"]
    /\ UNCHANGED <<rw, observed, srcVars, posVars, anVars, ctxVars>>

read_acquire_Mut(t) ==
    /\ tpc[t] = "read_wait"
    /\ rw' = [rw EXCEPT !.readers = @ + 1]
    /\ tpc' = [tpc EXCEPT ![t] = "read_held"]
    /\ UNCHANGED <<observed, srcVars, posVars, anVars, ctxVars>>

\* self.contents.read().unwrap() returns the guard
read_acquire(t) ==
    /\ tpc[t] = "read_wait"
    /\ ~rw.writer
    /\ rw' = [rw EXCEPT !.readers = @ + 1]
    /\ tpc' = [tpc EXCEPT ![t] = "read_held"]
    /\ UNCHANGED <<observed, srcVars, posVars, anVars, ctxVars>>

\* the holder of a guard reads the contents through it (get_line, repeatedly)
read(t) ==
    /\ tpc[t] = "read_held"
    /\ Len(observed[t]) < MaxReads
    /\ observed' = [observed EXCEPT ![t] = Append(@, Contents_text(sources[1].contents))]
    /\ UNCHANGED <<rw, tpc, srcVars, posVars, anVars, ctxVars>>

\* the RwLockReadGuard is dropped
drop_read(t) ==
    /\ tpc[t] = "read_held"
    /\ rw' = [rw EXCEPT !.readers = @ - 1]
    /\ tpc' = [tpc EXCEPT ![t] = "idle"]
    /\ observed' = [observed EXCEPT ![t] = <<>>]
    /\ UNCHANGED <<srcVars, posVars, anVars, ctxVars>>

\* a thread calls Source::change
change_call(t) ==
    /\ tpc[t] = "idle"
    /\ tpc' = [tpc EXCEPT ![t] = "write_wait"]
    /\ UNCHANGED <<rw, observed, srcVars, posVars, anVars, ctxVars>>

write_acquire_Mut(t) ==
    /\ tpc[t] = "write_wait"
    /\ ~rw.writer
    /\ rw' = [rw EXCEPT !.writer = TRUE]
    /\ tpc' = [tpc EXCEPT ![t] = "write_held"]
    /\ UNCHANGED <<observed, srcVars, posVars, anVars, ctxVars>>

\* self.source.contents.write().unwrap() returns the guard
write_acquire(t) ==
    /\ tpc[t] = "write_wait"
    /\ ~rw.writer /\ rw.readers = 0
    /\ rw' = [rw EXCEPT !.writer = TRUE]
    /\ tpc' = [tpc EXCEPT ![t] = "write_held"]
    /\ UNCHANGED <<observed, srcVars, posVars, anVars, ctxVars>>

\* the body of change, under the write guard
write_apply(t, range, content) ==
    /\ tpc[t] = "write_held"
    /\ Len(Contents_text(Source_change(sources[1], range, content).contents)) <= LockMaxLen
    /\ sources' = [sources EXCEPT ![1] = Source_change(@, range, content)]
    /\ tpc' = [tpc EXCEPT ![t] = "write_changed"]
    /\ UNCHANGED <<rw, observed, edits, last_change, posVars, anVars, ctxVars>>

drop_write_Mut(t) ==
    /\ tpc[t] = "write_changed"
    /\ tpc' = [tpc EXCEPT ![t] = "idle"]
    /\ UNCHANGED <<rw, observed, srcVars, posVars, anVars, ctxVars>>

\* change returns: the RwLockWriteGuard is dropped
drop_write(t) ==
    /\ tpc[t] = "write_changed"
    /\ rw' = [rw EXCEPT !.writer = FALSE]
    /\ tpc' = [tpc EXCEPT ![t] = "idle"]
    /\ UNCHANGED <<observed, srcVars, posVars, anVars, ctxVars>>

write_step(t) ==
    \E range \in ChangeRanges(sources[1]), content \in Texts(LockMaxLen) :
        write_apply(t, range, content)

NextLock ==
    \E t \in Threads :
        \/ contents_call(t)
        \/ read_acquire(t)
        \/ read(t)
        \/ drop_read(t)
        \/ change_call(t)
        \/ write_acquire(t)
        \/ write_step(t)
        \/ drop_write(t)

SpecLock == InitLock /\ [][NextLock]_vars

\* The scheduler runs every thread that can take a step; a thread need not start
\* a new call, and the lock itself promises no order among those that wait.
FairLock ==
    /\ SpecLock
    /\ \A t \in Threads :
        /\ WF_vars(read_acquire(t))
        /\ WF_vars(read(t))
        /\ WF_vars(drop_read(t))
        /\ WF_vars(write_acquire(t))
        /\ WF_vars(write_step(t))
        /\ WF_vars(drop_write(t))

InChange(t) == tpc[t] \in {"write_held", "write_changed"}
HoldsRead(t) == tpc[t] = "read_held"

\* C4: whatever a reader observes through its guard is one complete content: every
\* read through the guard returns the content as it is for the whole life of the
\* guard, never part of it from before a change and part from after it.
C4_ReadersSeeWholeContent ==
    \A t \in Threads :
        HoldsRead(t) =>
            \A i \in 1..Len(observed[t]) :
                observed[t][i] = Contents_text(sources[1].contents)

\* a reader has read twice through its guard, after a change that put text into the
\* empty Source, while another thread waits to change it again
C4_Witness ==
    \E t \in Threads, u \in Threads :
        /\ HoldsRead(t) /\ Len(observed[t]) = 2
        /\ observed[t][1] # <<>>
        /\ tpc[u] = "write_wait"

\* C5: at most one change call is inside its critical section, and no read guard is
\* held while one is.
C5_WriterExcludesAll ==
    /\ Cardinality({t \in Threads : InChange(t)}) <= 1
    /\ (\E t \in Threads : InChange(t)) => ~(\E t \in Threads : HoldsRead(t))
    /\ rw.readers = Cardinality({t \in Threads : HoldsRead(t)})
    /\ rw.writer <=> \E t \in Threads : InChange(t)

\* two read guards are held at the same time while a third thread waits to change
C5_Witness ==
    /\ Cardinality({t \in Threads : HoldsRead(t)}) >= 2
    /\ \E t \in Threads : tpc[t] = "write_wait"

Waiting(t) == tpc[t] \in {"read_wait", "write_wait"}
LockHeld == \E u \in Threads : HoldsRead(u) \/ InChange(u)

OtherChange(t) ==
    \E u \in Threads \ {t} : tpc[u] = "write_wait" \/ InChange(u)

\* C6 as stated: every read guard being released in the end, a change call that
\* waits completes (here even when no other change call competes with it: it
\* completes, or another thread calls change).
C6_Original ==
    \A t \in Threads : (tpc[t] = "write_wait") ~> (tpc[t] = "idle" \/ OtherChange(t))

\* C6, amended: a change call enters its critical section only when no read guard is
\* held, no reader obtains a guard while a change is inside it, and a change that is
\* inside completes. A call that waits, to change or to read, is served once the
\* lock stays free; it waits forever only if the lock is taken again and again.
C6_ChangeWaitsForReaders ==
    /\ [][\A w \in Threads :
            (tpc[w] = "write_wait" /\ tpc'[w] = "write_held")
                => ~(\E r \in Threads : HoldsRead(r))]_vars
    /\ [][\A r \in Threads :
            (tpc[r] = "read_wait" /\ tpc'[r] = "read_held")
                => ~(\E w \in Threads : InChange(w))]_vars
    /\ \A t \in Threads : InChange(t) ~> (tpc[t] = "idle")
    /\ \A t \in Threads : <>[]Waiting(t) => []<>LockHeld

\* a change is inside its critical section while one thread waits to read and
\* another waits to change
C6_Witness ==
    \E w \in Threads, r \in Threads, v \in Threads :
        /\ InChange(w)
        /\ tpc[r] = "read_wait"
        /\ tpc[v] = "write_wait"

(***************************************************************************)
(* SpecAssign: analyze_expr_assignment and analyze_waveform_assignment.    *)
(* resolve_target, analyze_expression, analyze_expression_with_target_type,*)
(* analyze_expression_pos and analyze_choices belong to the surrounding    *)
(* analyzer: each call is logged in `calls` and returns what the callee    *)
(* decides, Ok or a fatal error, after pushing diagnostics or none.        *)
(***************************************************************************)
TypeEnts == {"bit", "integer"}

\* Waveform: Unaffected, or Elements of {value, after: Option}
Unaffected == [unaffected |-> TRUE, elems |-> <<>>]
Elements(elems) == [unaffected |-> FALSE, elems |-> elems]
WaveformElement(has_after) == [after |-> has_after]

Waveforms ==
    { Unaffected,
      Elements(<<WaveformElement(TRUE), WaveformElement(FALSE)>>) }

\* the payload T of AssignmentRightHand<T>
Items(k) == IF k = "expr" THEN {"expression"} ELSE Waveforms

Simple(item) == [variant |-> "Simple", item |-> item]
Conditional(conditionals, else_item) ==
    [variant |-> "Conditional", conditionals |-> conditionals, else_item |-> else_item]
Selected(alternatives) == [variant |-> "Selected", alternatives |-> alternatives]

RightHands(k) ==
    {Simple(item) : item \in Items(k)}
    \cup {Conditional(c, e) :
            c \in UNION {[1..n -> [item : Items(k)]] : n \in 1..MaxBranches},
            e \in {None} \cup {Some(item) : item \in Items(k)}}
    \cup {Selected(a) :
            a \in UNION {[1..n -> [item : Items(k)]] : n \in 1..MaxBranches}}

\* an expression of the statement: which part of the right-hand side it is
Node(role, i, part, j) == [role |-> role, i |-> i, part |-> part, j |-> j]
Call(fn, node) == [fn |-> fn, node |-> node]

\* analyze_waveform: value, then after if present, for every element in order
analyze_waveform(role, i, wavf) ==
    IF wavf.unaffected THEN <<>>
    ELSE Flatten([j \in 1..Len(wavf.elems) |->
            <<Call("analyze_expression", Node(role, i, "value", j))>>
            \o (IF wavf.elems[j].after
                THEN <<Call("analyze_expression", Node(role, i, "after", j))>>
                ELSE <<>>)])

\* the analysis of one payload: analyze_expression_for_target in
\* analyze_expr_assignment, analyze_waveform in analyze_waveform_assignment
analyze_item(k, role, i, item) ==
    IF k = "expr"
    THEN <<Call("analyze_expression_for_target", Node(role, i, "expr", 0))>>
    ELSE analyze_waveform(role, i, item)

simple_arm(k, r) == analyze_item(k, "simple", 0, r.item)

conditional_arm_Mut(k, r) ==
    Flatten([i \in 1..Len(r.conditionals) |->
        <<Call("analyze_expression", Node("condition", i, "expr", 0))>>
        \o analyze_item(k, "item", i, r.conditionals[i].item)])

\* the Conditional arm: per pair the item, then the condition; then the else item
conditional_arm(k, r) ==
    Flatten([i \in 1..Len(r.conditionals) |->
        analyze_item(k, "item", i, r.conditionals[i].item)
        \o <<Call("analyze_expression", Node("condition", i, "expr", 0))>>])
    \o (IF IsSome(r.else_item)
        THEN analyze_item(k, "else", 0, Unwrap(r.else_item))
        ELSE <<>>)

\* the Selected arm: the selector, then per alternative the item, then the choices
selected_arm(k, r) ==
    <<Call("analyze_expression", Node("expression", 0, "expr", 0))>>
    \o Flatten([i \in 1..Len(r.alternatives) |->
        analyze_item(k, "item", i, r.alternatives[i].item)
        \o <<Call("analyze_choices", Node("choices", i, "choices", 0))>>])

\* the calls the match on rhs makes, in order, as long as none fails fatally
Steps(k, r) ==
    CASE r.variant = "Simple" -> simple_arm(k, r)
      [] r.variant = "Conditional" -> conditional_arm(k, r)
      [] r.variant = "Selected" -> selected_arm(k, r)

InitAssign ==
    /\ kind \in {"expr", "waveform"}
    /\ rhs \in RightHands(kind)
    /\ ttyp = None
    /\ apc = 0
    /\ calls = <<>>
    /\ diagnostics = <<>>
    /\ result = "running"
    /\ PosIdle /\ SrcIdle /\ LockIdle /\ CtxIdle

\* what a callee does to the sink: nothing, or it pushes a diagnostic at `where`
CanPush(push) == push => Len(diagnostics) < MaxDiags
Pushed(push, where) == IF push THEN <<where>> ELSE <<>>

\* the log entry of a call, with what the callee returned and whether it pushed
Returned(c, fatal, push) ==
    [fn |-> c.fn, node |-> c.node, ttyp |-> c.ttyp,
     ret |-> IF fatal THEN "Err" ELSE "Ok", pushed |-> push]

Continue_Mut(fatal) ==
    /\ apc' = apc + 1
    /\ result' = IF fatal \/ diagnostics' # diagnostics THEN "Err"
                 ELSE IF apc + 1 > Len(Steps(kind, rhs)) THEN "Ok" ELSE "running"

\* the `?` after a call: a fatal error returns it, Ok goes on to the next call,
\* and past the last call the function returns Ok(())
Continue(fatal) ==
    /\ apc' = apc + 1
    /\ result' = IF fatal THEN "Err"
                 ELSE IF apc + 1 > Len(Steps(kind, rhs)) THEN "Ok" ELSE "running"

\* let ttyp = self.resolve_target(scope, target, assignment_type, diagnostics)?;
resolve_target(fatal, typ, push) ==
    /\ result = "running" /\ apc = 0
    /\ CanPush(push)
    /\ ttyp' = IF fatal THEN None ELSE typ
    /\ diagnostics' = diagnostics \o Pushed(push, Node("target", 0, "target", 0))
    /\ Continue(fatal)
    /\ UNCHANGED <<kind, rhs, calls>>
    /\ UNCHANGED <<posVars, srcVars, lockVars, ctxVars>>

\* the next call of the match, when there is one
Current == Steps(kind, rhs)[apc]

AtCall_Mut(fn) ==
    /\ result # "Ok"
    /\ apc \in 1..Len(Steps(kind, rhs))
    /\ Current.fn = fn

AtCall(fn) ==
    /\ result = "running"
    /\ apc \in 1..Len(Steps(kind, rhs))
    /\ Current.fn = fn

for_target_call_Mut(t, node) ==
    [fn |-> "analyze_expression_pos", node |-> node, ttyp |-> None]

\* analyze_expression_for_target: with a target type,
\* analyze_expression_with_target_type(ttyp, ..); without, analyze_expression_pos
for_target_call(t, node) ==
    IF IsSome(t)
    THEN [fn |-> "analyze_expression_with_target_type", node |-> node, ttyp |-> t]
    ELSE [fn |-> "analyze_expression_pos", node |-> node, ttyp |-> None]

analyze_expression_for_target(fatal, push) ==
    /\ AtCall("analyze_expression_for_target")
    /\ CanPush(push)
    /\ calls' = Append(calls, Returned(for_target_call(ttyp, Current.node), fatal, push))
    /\ diagnostics' = diagnostics \o Pushed(push, Current.node)
    /\ Continue(fatal)
    /\ UNCHANGED <<kind, rhs, ttyp>>
    /\ UNCHANGED <<posVars, srcVars, lockVars, ctxVars>>

\* self.analyze_expression(scope, expr, diagnostics)?: no target type is passed
analyze_expression(fatal, push) ==
    /\ AtCall("analyze_expression")
    /\ CanPush(push)
    /\ calls' = Append(calls, Returned([fn |-> "analyze_expression", node |-> Current.node,
                                        ttyp |-> None], fatal, push))
    /\ diagnostics' = diagnostics \o Pushed(push, Current.node)
    /\ Continue(fatal)
    /\ UNCHANGED <<kind, rhs, ttyp>>
    /\ UNCHANGED <<posVars, srcVars, lockVars, ctxVars>>

\* self.analyze_choices(scope, choices, diagnostics)?
analyze_choices(fatal, push) ==
    /\ AtCall("analyze_choices")
    /\ CanPush(push)
    /\ calls' = Append(calls, Returned([fn |-> "analyze_choices", node |-> Current.node,
                                        ttyp |-> None], fatal, push))
    /\ diagnostics' = diagnostics \o Pushed(push, Current.node)
    /\ Continue(fatal)
    /\ UNCHANGED <<kind, rhs, ttyp>>
    /\ UNCHANGED <<posVars, srcVars, lockVars, ctxVars>>

NextAssign ==
    \E fatal \in BOOLEAN, push \in BOOLEAN :
        \/ \E typ \in {None} \cup {Some(t) : t \in TypeEnts} :
                resolve_target(fatal, typ, push)
        \/ analyze_expression_for_target(fatal, push)
        \/ analyze_expression(fatal, push)
        \/ analyze_choices(fatal, push)

SpecAssign == InitAssign /\ [][NextAssign]_vars

\* the item expressions of an expression right-hand side
ItemNodes(r) ==
    CASE r.variant = "Simple" -> {Node("simple", 0, "expr", 0)}
      [] r.variant = "Conditional" ->
            {Node("item", i, "expr", 0) : i \in 1..Len(r.conditionals)}
            \cup (IF IsSome(r.else_item) THEN {Node("else", 0, "expr", 0)} ELSE {})
      [] r.variant = "Selected" ->
            {Node("item", i, "expr", 0) : i \in 1..Len(r.alternatives)}

\* the call hands the callee the target type of the statement, or none if it has none
Targeted(c) ==
    /\ c.ttyp = ttyp
    /\ c.fn = IF IsSome(ttyp) THEN "analyze_expression_with_target_type"
              ELSE "analyze_expression_pos"

Untargeted(c) == c.fn = "analyze_expression" /\ c.ttyp = None

\* the callee is given the target type of the statement (none, if it has none)
ReceivesTarget(c) == c.ttyp = ttyp

CallsOf(node) == {k \in 1..Len(calls) : calls[k].node = node}

\* C7: in analyze_expr_assignment every item analysis receives the target type
\* that resolve_target returned: T when it is T, none when it is absent; and when
\* the function returns Ok every item (Simple, each branch, the else item, each
\* alternative) has been analyzed.
C7_TargetTypeBroadcast ==
    kind = "expr" =>
        /\ \A k \in 1..Len(calls) :
              calls[k].node \in ItemNodes(rhs) => Targeted(calls[k])
        /\ \A k \in 1..Len(calls) :
              calls[k].node \notin ItemNodes(rhs) => calls[k].ttyp = None
        /\ result = "Ok" =>
              \A n \in ItemNodes(rhs) : Cardinality(CallsOf(n)) = 1

\* a conditional expression assignment with two branches and an else item was
\* analyzed to the end under target type bit
C7_Witness ==
    /\ kind = "expr" /\ result = "Ok"
    /\ rhs.variant = "Conditional"
    /\ Len(rhs.conditionals) = 2 /\ IsSome(rhs.else_item)
    /\ ttyp = Some("bit")

\* C8: for a Conditional right-hand side of n pairs that analyze_expr_assignment
\* analyzes without a fatal failure, the calls after target resolution are, per pair
\* in source order, the targeted analysis of the item and then the untargeted
\* analysis of the condition, and last the targeted analysis of the else item if
\* there is one: n + (1 if else) targeted and n untargeted calls.
C8_ConditionalSequence ==
    (kind = "expr" /\ rhs.variant = "Conditional" /\ result = "Ok") =>
        LET n == Len(rhs.conditionals)
            e == IF IsSome(rhs.else_item) THEN 1 ELSE 0
        IN /\ Len(calls) = 2 * n + e
           /\ \A i \in 1..n :
                /\ calls[2 * i - 1].node = Node("item", i, "expr", 0)
                /\ Targeted(calls[2 * i - 1])
                /\ calls[2 * i].node = Node("condition", i, "expr", 0)
                /\ Untargeted(calls[2 * i])
           /\ e = 1 =>
                /\ calls[2 * n + 1].node = Node("else", 0, "expr", 0)
                /\ Targeted(calls[2 * n + 1])
           /\ Cardinality({k \in 1..Len(calls) : Targeted(calls[k])}) = n + e
           /\ Cardinality({k \in 1..Len(calls) : Untargeted(calls[k])}) = n

\* x <= a when cond1 else b when cond2 else c, analyzed to the end, with a
\* diagnostic pushed on the way: three targeted and two untargeted calls
C8_Witness ==
    /\ kind = "expr" /\ result = "Ok"
    /\ rhs.variant = "Conditional"
    /\ Len(rhs.conditionals) = 2 /\ IsSome(rhs.else_item)
    /\ Len(calls) = 5
    /\ diagnostics # <<>>

\* the calls that analyze the item of alternative i: the expression itself, or the
\* values of the waveform's elements
ItemCalls(i) ==
    {k \in 1..Len(calls) :
        /\ calls[k].node.role = "item" /\ calls[k].node.i = i
        /\ calls[k].node.part \in {"expr", "value"}}

ChoicesCalls(i) == CallsOf(Node("choices", i, "choices", 0))

\* C9: for a Selected right-hand side analyzed without a fatal failure, the selector
\* is analyzed untargeted first, and then for every alternative in source order its
\* item is analyzed against the target type and its choices by analyze_choices,
\* each exactly once.
C9_SelectedSequence ==
    (rhs # None /\ rhs.variant = "Selected" /\ result = "Ok") =>
        LET n == Len(rhs.alternatives)
        IN /\ calls[1].node = Node("expression", 0, "expr", 0)
           /\ Untargeted(calls[1])
           /\ Cardinality(CallsOf(Node("expression", 0, "expr", 0))) = 1
           /\ \A i \in 1..n :
                /\ Cardinality(ChoicesCalls(i)) = 1
                /\ kind = "expr" => Cardinality(ItemCalls(i)) = 1
                /\ \A k \in ItemCalls(i) : ReceivesTarget(calls[k])
                /\ \A k \in ItemCalls(i), c \in ChoicesCalls(i) : k < c
                /\ \A c \in ChoicesCalls(i), k \in 1..Len(calls) :
                      calls[k].node.role = "item" /\ calls[k].node.i > i => c < k

\* C10: in analyze_waveform_assignment the value of every element of every
\* waveform that is not Unaffected is analyzed under the target type of the
\* assignment, its after expression untargeted, and an Unaffected waveform causes
\* no expression analysis call.
C10_WaveformValuesTargeted ==
    kind = "waveform" =>
        \A k \in 1..Len(calls) :
            /\ calls[k].node.part = "value" => ReceivesTarget(calls[k])
            /\ calls[k].node.part = "after" => Untargeted(calls[k])
            /\ calls[k].node.part \in {"value", "after"} =>
                 LET nd == calls[k].node
                     w == CASE nd.role = "simple" -> rhs.item
                            [] nd.role = "else" -> Unwrap(rhs.else_item)
                            [] nd.role = "item" /\ rhs.variant = "Conditional" ->
                                  rhs.conditionals[nd.i].item
                            [] nd.role = "item" /\ rhs.variant = "Selected" ->
                                  rhs.alternatives[nd.i].item
                 IN ~w.unaffected /\ nd.j \in 1..Len(w.elems)

\* every expression and choice set of the right-hand side that an analysis that
\* runs to the end has to visit
VisitNodes(k, r) ==
    LET item(role, i, w) ==
            IF k = "expr" THEN {Node(role, i, "expr", 0)}
            ELSE {Node(role, i, "value", j) : j \in 1..Len(w.elems)}
                 \cup {Node(role, i, "after", j) :
                         j \in {x \in 1..Len(w.elems) : w.elems[x].after}}
    IN CASE r.variant = "Simple" -> item("simple", 0, r.item)
         [] r.variant = "Conditional" ->
              UNION {item("item", i, r.conditionals[i].item)
                     \cup {Node("condition", i, "expr", 0)} : i \in 1..Len(r.conditionals)}
              \cup (IF IsSome(r.else_item) THEN item("else", 0, Unwrap(r.else_item)) ELSE {})
         [] r.variant = "Selected" ->
              {Node("expression", 0, "expr", 0)}
              \cup UNION {item("item", i, r.alternatives[i].item)
                          \cup {Node("choices", i, "choices", 0)} : i \in 1..Len(r.alternatives)}

IsTargetDiag(d) == d.role = "target"
NotTargetDiag(d) == d.role # "target"
DidPush(c) == c.pushed

\* the nodes of the calls that pushed a diagnostic, in call order
RECURSIVE PushedNodes(_)
PushedNodes(cs) ==
    IF cs = <<>> THEN <<>>
    ELSE (IF Head(cs).pushed THEN <<Head(cs).node>> ELSE <<>>) \o PushedNodes(Tail(cs))

\* C11: diagnostics never stop the analysis of an assignment: every diagnostic a
\* call pushed is in the sink, in call order; the function has returned an error
\* only if the last call made (or resolve_target) returned a fatal failure; and
\* when it returns Ok every branch was analyzed, whatever was pushed on the way.
C11_DiagnosticsDoNotStop ==
    kind # "off" =>
        /\ SelectSeq(diagnostics, NotTargetDiag) = PushedNodes(calls)
        /\ Len(SelectSeq(diagnostics, IsTargetDiag)) <= 1
        /\ result = "Err" => (calls = <<>> \/ calls[Len(calls)].ret = "Err")
        /\ result = "Ok" =>
              /\ \A n \in VisitNodes(kind, rhs) : Cardinality(CallsOf(n)) = 1
              /\ \A k \in 1..Len(calls) : calls[k].ret = "Ok"

\* a conditional with two branches returned Ok although its first item and a
\* later branch each pushed a diagnostic
C11_Witness ==
    /\ result = "Ok" /\ rhs.variant = "Conditional"
    /\ Len(rhs.conditionals) = 2
    /\ Len(diagnostics) = 2
    /\ diagnostics[1].role = "item" /\ diagnostics[1].i = 1
    /\ diagnostics[2].role = "item" /\ diagnostics[2].i = 2

IsPrefix(s, t) == Len(s) <= Len(t) /\ SubSeq(t, 1, Len(s)) = s

\* C12: a fatal failure aborts the statement and is returned: after a fatal
\* resolve_target no right-hand-side call has been made, after a fatal call that
\* call is the last one, nothing is invoked once the function has returned the
\* failure, and the diagnostics pushed before stay in the sink.
C12_FatalAborts ==
    /\ [](result = "Err" =>
            /\ Len(calls) = apc - 1
            /\ \A k \in 1..(Len(calls) - 1) : calls[k].ret = "Ok"
            /\ calls # <<>> => calls[Len(calls)].ret = "Err")
    /\ [](\A k \in 1..Len(calls) : calls[k].ret = "Err" => result = "Err")
    /\ [][result = "Err" =>
            calls' = calls /\ diagnostics' = diagnostics /\ result' = "Err"]_vars
    /\ [][IsPrefix(diagnostics, diagnostics') /\ IsPrefix(calls, calls')]_vars

\* a waveform assignment returned the fatal failure of its second call, with a
\* diagnostic pushed before it and calls left unmade
C12_Witness ==
    /\ kind = "waveform" /\ result = "Err"
    /\ Len(calls) = 2
    /\ Len(Steps(kind, rhs)) > 2
    /\ diagnostics # <<>> /\ calls[1].pushed

\* resolve_target failed fatally after pushing a diagnostic
C12_WitnessTarget ==
    /\ kind = "expr" /\ result = "Err" /\ apc = 1
    /\ calls = <<>> /\ diagnostics # <<>>

(***************************************************************************)
(* The Range invariant after combine (SpecPos)                             *)
(***************************************************************************)
Ordered(r) == Position_le(r.start, r.end)

SameSourceDone ==
    cpc = "done" /\ Source_eq(Unwrap(self_pos).source, Unwrap(other_pos).source)

\* C14 as stated: for any two spans on the same source, whether or not their
\* own start and end are ordered, the span combine returns has start <= end.
C14_Original ==
    SameSourceDone =>
        Ordered(Unwrap(combined).range) /\ Ordered(Unwrap(combined_rev).range)

\* C14: for two spans on the same source of which at least one has
\* start <= end, the span combine returns has start <= end; it is the min of
\* the starts and the max of the ends.
C14_CombineOrdered ==
    (SameSourceDone /\ (Ordered(Unwrap(self_pos).range) \/ Ordered(Unwrap(other_pos).range))) =>
        /\ Ordered(Unwrap(combined).range)
        /\ Ordered(Unwrap(combined_rev).range)
        /\ Unwrap(combined).range.start
              = min(Unwrap(self_pos).range.start, Unwrap(other_pos).range.start)
        /\ Position_le(Unwrap(self_pos).range.end, Unwrap(combined).range.end)
        /\ Position_le(Unwrap(other_pos).range.end, Unwrap(combined).range.end)

\* an ordered span was combined with one whose end lies before its start
C14_Witness ==
    /\ SameSourceDone
    /\ Position_lt(Unwrap(self_pos).range.start, Unwrap(self_pos).range.end)
    /\ Position_lt(Unwrap(other_pos).range.end, Unwrap(other_pos).range.start)
    /\ Position_lt(Unwrap(other_pos).range.end, Unwrap(self_pos).range.start)
    /\ Unwrap(combined).range.start = Unwrap(self_pos).range.start
    /\ Unwrap(combined).range.end = Unwrap(self_pos).range.end

(***************************************************************************)
(* SrcPos::code_context: the lines around a span, with line numbers, an    *)
(* arrow on the lines of the span and a row of ~ under them. A String is a *)
(* sequence of one-character strings.                                      *)
(***************************************************************************)
\* longest text after the padding lines, span lines and columns of SpecCtx
CtxMaxLen == 3
CtxMaxLine == 1
CtxMaxChar == 3

LINE_CONTEXT == 2

saturating_sub(a, b) == IF a > b THEN a - b ELSE 0

get_line_context_Mut(self, context_lines, contents) ==
    LET start == saturating_sub(self.range.start.line, context_lines)
        end == self.range.end.line
        all == [k \in 1..(end - start + 1) |->
                    [lineno |-> start + k - 1,
                     line |-> Contents_get_line(contents, start + k - 1)]]
        found(e) == IsSome(e.line)
        some == SelectSeq(all, found)
        lines == [k \in 1..Len(some) |->
                    [lineno |-> some[k].lineno, line |-> Unwrap(some[k].line)]]
    IN IF lines = <<>>
       THEN <<[lineno |-> self.range.start.line, line |-> <<>>]>>
       ELSE lines

\* SrcPos::get_line_context: Vec<(u64, Latin1String)>
get_line_context(self, context_lines, contents) ==
    LET start == saturating_sub(self.range.start.line, context_lines)
        end == self.range.end.line + context_lines
        all == [k \in 1..(end - start + 1) |->
                    [lineno |-> start + k - 1,
                     line |-> Contents_get_line(contents, start + k - 1)]]
        found(e) == IsSome(e.line)
        some == SelectSeq(all, found)
        lines == [k \in 1..Len(some) |->
                    [lineno |-> some[k].lineno, line |-> Unwrap(some[k].line)]]
    IN IF lines = <<>>
       THEN <<[lineno |-> self.range.start.line, line |-> <<>>]>>
       ELSE lines

push_replicate(line, chr, times) == line \o [i \in 1..times |-> chr]

visual_width_Mut(chr) == 1

visual_width(chr) == IF chr = "\t" THEN 4 ELSE 1

\* the `for chr in line.chars()` loop of underline, from character k on;
\* returns the row so far and pos.character
RECURSIVE underline_chars(_, _, _, _, _)
underline_chars(self, lineno, line, k, into) ==
    IF k = Len(line) THEN [into |-> into, character |-> k]
    ELSE LET pos == Position_new(lineno, k)
             chr == line[k + 1]
         IN IF Position_lt(pos, self.range.start)
            THEN underline_chars(self, lineno, line, k + 1,
                                 push_replicate(into, " ", visual_width(chr)))
            ELSE IF Position_lt(pos, self.range.end)
            THEN underline_chars(self, lineno, line, k + 1,
                                 push_replicate(into, "~", visual_width(chr)))
            ELSE [into |-> into, character |-> k]

\* the `while pos < self.range.end` loop of underline
RECURSIVE underline_rest(_, _, _, _)
underline_rest(self, lineno, k, into) ==
    IF Position_lt(Position_new(lineno, k), self.range.end)
    THEN underline_rest(self, lineno, k + 1, Append(into, "~"))
    ELSE into

\* SrcPos::underline
underline(self, lineno_len, lineno, line, into) ==
    LET gutter == push_replicate(into, " ", lineno_len) \o <<" ", " ", "|", " ", " ">>
        row == underline_chars(self, lineno, line, 0, gutter)
        rest == IF lineno = self.range.end.line
                THEN underline_rest(self, lineno, row.character, row.into)
                ELSE row.into
    IN Append(rest, "\n")

\* u64::to_string
Digits == <<"0", "1", "2", "3", "4", "5", "6", "7", "8", "9">>
RECURSIVE to_string(_)
to_string(n) ==
    IF n < 10 THEN <<Digits[n + 1]>>
    ELSE Append(to_string(n \div 10), Digits[(n % 10) + 1])

\* pad_to_width_with_alignment(width, Alignment::Right): a longer string is kept whole
pad_to_width_with_alignment(str, width) ==
    IF Len(str) >= width THEN str
    ELSE [i \in 1..(width - Len(str)) |-> " "] \o str

\* str::trim_matches('\n')
RECURSIVE trim_matches(_)
trim_matches(line) ==
    IF line = <<>> THEN line
    ELSE IF Head(line) = "\n" THEN trim_matches(Tail(line))
    ELSE IF line[Len(line)] = "\n" THEN trim_matches(SubSeq(line, 1, Len(line) - 1))
    ELSE line

\* str::trim_end
RECURSIVE trim_end(_)
trim_end(line) ==
    IF line # <<>> /\ line[Len(line)] \in {" ", "\t", "\n"}
    THEN trim_end(SubSeq(line, 1, Len(line) - 1))
    ELSE line

\* the `for chr in line.trim_end().chars()` loop of code_context_from_contents
RECURSIVE push_line(_, _)
push_line(res, line) ==
    IF line = <<>> THEN res
    ELSE push_line(IF Head(line) = "\t"
                   THEN push_replicate(res, " ", visual_width(Head(line)))
                   ELSE Append(res, Head(line)),
                   Tail(line))

\* the `for (lineno, line) in lines.iter()` loop of code_context_from_contents
RECURSIVE context_rows(_, _, _, _)
context_rows(self, lineno_len, lines, res) ==
    IF lines = <<>> THEN res
    ELSE LET lineno == Head(lines).lineno
             line == trim_matches(Head(lines).line)
             lineno_str == pad_to_width_with_alignment(to_string(lineno + 1), lineno_len)
             overlaps == self.range.start.line <= lineno /\ lineno <= self.range.end.line
             numbered == res \o lineno_str
                         \o (IF overlaps THEN <<" ", "-", "-", ">", " ">>
                                         ELSE <<" ", " ", "|", " ", " ">>)
             shown == Append(push_line(numbered, trim_end(line)), "\n")
         IN context_rows(self, lineno_len, Tail(lines),
                         IF overlaps THEN underline(self, lineno_len, lineno, line, shown)
                                     ELSE shown)

\* SrcPos::code_context_from_contents: (usize, String)
code_context_from_contents(self, contents, context_lines) ==
    LET lines == get_line_context(self, context_lines, contents)
        lineno_len == Len(to_string(self.range.start.line + context_lines + 1))
    IN [lineno_len |-> lineno_len,
        result |-> context_rows(self, lineno_len, lines, <<>>)]

lineno_len_and_code_context(self) ==
    code_context_from_contents(self, self.source.contents, LINE_CONTEXT)

code_context(self) == lineno_len_and_code_context(self).result

(***************************************************************************)
(* SpecCtx: a span on a Source; the Source may be changed once after the   *)
(* span was made; then code_context is called.                             *)
(***************************************************************************)
CtxChars == {"a", "\t", "\n"}
CtxTexts == UNION {[1..k -> CtxChars] : k \in 0..CtxMaxLen}
\* the text may follow a run of empty lines, so that two-digit line numbers occur
CtxPads == {<<>>, [i \in 1..8 |-> "\n"]}
\* the lines a span may lie on: the first ones, or those around line number 9
CtxBases == {0, 6}
CtxPositions(base) ==
    {Position_new(base + l, c) : l \in 0..CtxMaxLine, c \in 0..CtxMaxChar}
CtxRanges ==
    UNION {{Range_new(s, e) : s \in CtxPositions(base), e \in CtxPositions(base)} :
              base \in CtxBases}
\* what Source::change leaves of the text
CtxChanged == {<<>>, <<"a">>}

InitCtx ==
    /\ ctx_pos \in {Some(SrcPos_new(Source_inline("a.vhd", pad \o t), r)) :
                      pad \in CtxPads, t \in CtxTexts, r \in CtxRanges}
    /\ ctx_changed = FALSE
    /\ ctx_out = None
    /\ PosIdle /\ SrcIdle /\ LockIdle /\ AnIdle

\* source.change(None, content) on the Source the span shares
ChangeCtx(content) ==
    /\ ctx_out = None /\ ~ctx_changed
    /\ ctx_pos' = Some([Unwrap(ctx_pos) EXCEPT
                          !.source = Source_change(@, None, content)])
    /\ ctx_changed' = TRUE
    /\ UNCHANGED ctx_out
    /\ UNCHANGED <<posVars, srcVars, lockVars, anVars>>

\* pos.code_context() with the current contents
CodeContext ==
    /\ ctx_out = None
    /\ ctx_out' = Some(lineno_len_and_code_context(Unwrap(ctx_pos)))
    /\ UNCHANGED <<ctx_pos, ctx_changed>>
    /\ UNCHANGED <<posVars, srcVars, lockVars, anVars>>

NextCtx ==
    \/ \E content \in CtxChanged : ChangeCtx(content)
    \/ CodeContext

SpecCtx == InitCtx /\ [][NextCtx]_vars

(***************************************************************************)
(* Reading the returned String back: its rows, and on a row the line       *)
(* number, the gutter and the text                                         *)
(***************************************************************************)
CtxSpan == Unwrap(ctx_pos).range
CtxLines == Unwrap(ctx_pos).source.contents.lines
CtxWidth == Unwrap(ctx_out).lineno_len

\* the rows of a String, each without its "\n"
RECURSIVE RowsOf(_)
RowsOf(str) ==
    IF str = <<>> THEN <<>>
    ELSE LET k == FirstNewline(str)
         IN IF k = 0 THEN <<str>>
            ELSE <<SubSeq(str, 1, k - 1)>> \o RowsOf(SubSeq(str, k + 1, Len(str)))

CtxRows == RowsOf(Unwrap(ctx_out).result)

IsDigit(c) == \E d \in 1..Len(Digits) : Digits[d] = c
\* how many blanks, and how many digits, a row starts with
RECURSIVE LeadingBlanks(_)
LeadingBlanks(row) ==
    IF row # <<>> /\ Head(row) = " " THEN 1 + LeadingBlanks(Tail(row)) ELSE 0
RECURSIVE LeadingDigits(_)
LeadingDigits(row) ==
    IF row # <<>> /\ IsDigit(Head(row)) THEN 1 + LeadingDigits(Tail(row)) ELSE 0
NumberStart(row) == LeadingBlanks(row)
NumberEnd(row) ==
    NumberStart(row) + LeadingDigits(SubSeq(row, NumberStart(row) + 1, Len(row)))
\* a row that shows a line, as opposed to an underline row
IsLineRow(row) == NumberEnd(row) > NumberStart(row)
NumberOf(row) ==
    CHOOSE n \in 0..99 : to_string(n) = SubSeq(row, NumberStart(row) + 1, NumberEnd(row))
GutterOf(row) == SubSeq(row, NumberEnd(row) + 1, NumberEnd(row) + 5)
TextOf(row) == SubSeq(row, NumberEnd(row) + 6, Len(row))
Arrow == <<" ", "-", "-", ">", " ">>
Bar == <<" ", " ", "|", " ", " ">>
LineRows == SelectSeq(CtxRows, IsLineRow)

Blanks(n) == [i \in 1..n |-> " "]
Tildes(n) == [i \in 1..n |-> "~"]

\* the lines of the window max(0, start.line - 2) .. end.line + 2 that exist
WindowFirst == IF CtxSpan.start.line > 2 THEN CtxSpan.start.line - 2 ELSE 0
WindowLast ==
    IF CtxSpan.end.line + 2 < Len(CtxLines) THEN CtxSpan.end.line + 2 ELSE Len(CtxLines) - 1
Window == [k \in 1..(WindowLast - WindowFirst + 1) |-> WindowFirst + k - 1]
InSpan(l) == CtxSpan.start.line <= l /\ l <= CtxSpan.end.line

\* the lines that intersect the span and are shown, the synthetic line included
Intersecting ==
    IF Window = <<>> THEN {l \in {CtxSpan.start.line} : InSpan(l)}
    ELSE {l \in WindowFirst..WindowLast : InSpan(l)}
NotNewline(c) == c # "\n"
LineText(l) == IF l < Len(CtxLines) THEN SelectSeq(CtxLines[l + 1], NotNewline) ELSE <<>>
\* the row under the row that shows line l
UnderRow(l) ==
    LET i == CHOOSE i \in 1..Len(CtxRows) :
                 IsLineRow(CtxRows[i]) /\ NumberOf(CtxRows[i]) = l + 1
    IN IF i < Len(CtxRows) THEN Some(CtxRows[i + 1]) ELSE None

Columns(chr) == IF chr = "\t" THEN 4 ELSE 1
RECURSIVE TextColumns(_)
TextColumns(text) == IF text = <<>> THEN 0 ELSE Columns(Head(text)) + TextColumns(Tail(text))

\* the underline C13 describes for line l with the given text: per character
\* position k, blanks before the span's start, ~ from its start up to its end,
\* on the span's final line up to the end column even past the text
RECURSIVE ClaimedCells(_, _, _, _)
ClaimedCells(range, l, text, k) ==
    LET last == IF l = range.end.line /\ range.end.character > Len(text)
                THEN range.end.character ELSE Len(text)
        w == IF k < Len(text) THEN Columns(text[k + 1]) ELSE 1
        pos == Position_new(l, k)
    IN IF k >= last THEN <<>>
       ELSE (IF Position_lt(pos, range.start) THEN Blanks(w)
             ELSE IF Position_lt(pos, range.end) THEN Tildes(w)
             ELSE <<>>) \o ClaimedCells(range, l, text, k + 1)
ClaimedUnderline(l) ==
    Blanks(CtxWidth) \o Bar \o ClaimedCells(CtxSpan, l, LineText(l), 0)

\* C13 as stated: under every shown line that intersects the span the row is
\* the prefix, blanks for every column before the span's start and ~ for every
\* column from the start up to the end (a tab is 4 columns), on the final line
\* up to the end column even past the text; no ~ lies before the span's start.
C13_Original ==
    ctx_out # None =>
        \A l \in Intersecting : UnderRow(l) = Some(ClaimedUnderline(l))

\* does the span start on line l beyond the end of that line's text
StartsPastText(l) ==
    CtxSpan.start.line = l /\ CtxSpan.start.character > Len(LineText(l))

\* C13: the underline row is as C13 states for every shown line that intersects
\* the span, unless the span starts on that line beyond the end of its text;
\* there the row has blanks under the text and, on the span's final line, ~ from
\* the end of the text up to the end column, before the span's start.
C13_Underline ==
    ctx_out # None =>
        \A l \in Intersecting :
            IF StartsPastText(l)
            THEN UnderRow(l) =
                   Some(Blanks(CtxWidth) \o Bar \o Blanks(TextColumns(LineText(l)))
                        \o Tildes(IF l = CtxSpan.end.line
                                     /\ CtxSpan.end.character > Len(LineText(l))
                                  THEN CtxSpan.end.character - Len(LineText(l)) ELSE 0))
            ELSE UnderRow(l) = Some(ClaimedUnderline(l))

\* a span from behind a tab to one column past the end of a line with a tab
\* in the span: 4 blanks, 4 ~ under the text and 1 ~ past it
C13_Witness ==
    /\ ctx_out # None /\ ~ctx_changed
    /\ CtxLines = <<<<"\t", "\t">>>>
    /\ CtxSpan = Range_new(Position_new(0, 1), Position_new(0, 3))
    /\ UnderRow(0) = Some(Blanks(1) \o Bar \o Blanks(4) \o Tildes(5))

\* a span that covers the end of one line and the start of the next
C13_WitnessLines ==
    /\ ctx_out # None /\ ~ctx_changed
    /\ CtxLines = <<<<"a", "\n">>, <<"a">>>>
    /\ CtxSpan = Range_new(Position_new(0, 1), Position_new(1, 1))
    /\ UnderRow(0) = Some(Blanks(1) \o Bar \o Blanks(1))
    /\ UnderRow(1) = Some(Blanks(1) \o Bar \o Tildes(1))

\* C15: every displayed line number is right-aligned to the one computed width,
\* which is at least as wide as the widest number shown, so the gutter
\* (` --> ` or `  |  `) starts in the same column on every row.
C15_Aligned ==
    ctx_out # None =>
        \A i \in 1..Len(CtxRows) :
            /\ SubSeq(CtxRows[i], CtxWidth + 1, CtxWidth + 5) \in {Arrow, Bar}
            /\ IsLineRow(CtxRows[i]) => NumberEnd(CtxRows[i]) = CtxWidth

\* the number and the mark of every row that shows a line, in order
ShownLines ==
    [i \in 1..Len(LineRows) |->
        [number |-> NumberOf(LineRows[i]),
         arrow |-> GutterOf(LineRows[i]) = Arrow,
         bar |-> GutterOf(LineRows[i]) = Bar]]
\* what C16 states for the lines of the window that exist
WindowLines ==
    [k \in 1..Len(Window) |->
        [number |-> Window[k] + 1, arrow |-> InSpan(Window[k]), bar |-> ~InSpan(Window[k])]]
IsTilde(c) == c = "~"
\* the synthetic empty line numbered start.line + 1, with the arrow and its underline
SyntheticWithArrow ==
    /\ Len(CtxRows) = 2
    /\ CtxRows[1] = pad_to_width_with_alignment(to_string(CtxSpan.start.line + 1), CtxWidth)
                    \o Arrow
    /\ SubSeq(CtxRows[2], 1, CtxWidth + 5) = Blanks(CtxWidth) \o Bar
    /\ \A k \in (CtxWidth + 6)..Len(CtxRows[2]) : IsTilde(CtxRows[2][k])

\* the call returns a String of whole rows, before and after a change
Returns ==
    LET str == code_context(Unwrap(ctx_pos))
    IN str # <<>> /\ str[Len(str)] = "\n"

\* C16 as stated: code_context returns for any span and any current content;
\* it shows the existing lines of max(0, start.line - 2) .. end.line + 2, with
\* the arrow exactly on those in [start.line, end.line]; when none exists it
\* renders one synthetic empty line numbered start.line + 1 with the arrow and
\* its underline.
C16_Original ==
    /\ Returns
    /\ ctx_out # None =>
         IF Window # <<>> THEN ShownLines = WindowLines ELSE SyntheticWithArrow

\* C16: as C16_Original, except that the synthetic line carries the arrow and
\* an underline only when start.line <= end.line; for a span whose end line
\* lies before its start line it is shown with `  |  ` and without underline.
C16_WindowShown ==
    /\ Returns
    /\ ctx_out # None =>
         IF Window # <<>> THEN ShownLines = WindowLines
         ELSE IF CtxSpan.start.line <= CtxSpan.end.line THEN SyntheticWithArrow
         ELSE CtxRows =
                <<pad_to_width_with_alignment(to_string(CtxSpan.start.line + 1), CtxWidth)
                  \o Bar>>

\* the content was emptied after the span was made: the synthetic line
C16_Witness ==
    /\ ctx_out # None /\ ctx_changed
    /\ CtxLines = <<>>
    /\ CtxSpan = Range_new(Position_new(1, 0), Position_new(1, 1))
    /\ CtxRows = <<<<"2">> \o Arrow, Blanks(1) \o Bar \o Tildes(1)>>

\* a window cut off at the start and at the end of the content, arrow on one line
C16_WitnessWindow ==
    /\ ctx_out # None /\ ~ctx_changed
    /\ Len(CtxLines) = 3
    /\ CtxSpan.start.line = 1 /\ CtxSpan.end.line = 1
    /\ ShownLines = <<[number |-> 1, arrow |-> FALSE, bar |-> TRUE],
                      [number |-> 2, arrow |-> TRUE, bar |-> FALSE],
                      [number |-> 3, arrow |-> FALSE, bar |-> TRUE]>>

====
